---- MODULE Spec2Model ----
(***************************************************************************)
(* Model of src/Main.cpp: the roster Model (classes, students and their    *)
(* two backing files classes.txt / students.txt), the prompting add flows  *)
(* of the Controller, and the card grid renderer of the View.              *)
(*                                                                         *)
(* A std::string is a sequence of one-character strings.  All characters   *)
(* of the model are single-byte, so size() equals the printable width.     *)
(***************************************************************************)
EXTENDS Integers, Sequences, FiniteSets, TLC

VARIABLES
    classes,       \* Model::classes
    students,      \* Model::students
    fileClasses,   \* classes.txt
    fileStudents,  \* students.txt
    loaded,        \* what LoadData put in the two lists at construction
    log,           \* the AddClass / AddStudent calls made so far, in order
    cards,         \* the argument of DisplayCardsGrid
    shown,         \* whether DisplayCardsGrid has been called
    out,           \* the lines written to std::cout by DisplayCardsGrid
    thrown         \* whether DisplayCardsGrid ended by an exception

vars == <<classes, students, fileClasses, fileStudents, loaded, log,
          cards, shown, out, thrown>>

(***************************************************************************)
(* Bounds                                                                  *)
(***************************************************************************)
MaxCalls == 4
MaxPromptLines == 2
MaxCards == 3

(***************************************************************************)
(* std::string helpers                                                     *)
(***************************************************************************)
\* std::string::npos; npos + 1 wraps to 0 in size_t arithmetic, which is
\* what -1 + 1 gives here.
npos == -1

\* the whitespace set of Model::Trim / View::Trim: " \t\n\r\f\v"
whitespace == {" ", "\t", "\n", "\r", "\f", "\\v"}

\* std::string(n, ch) with an int n: a negative n converts to a size_t above
\* max_size() and the constructor throws std::length_error.
Throws(n) == n < 0

Rep(n, ch) == [i \in 1..n |-> ch]

\* s.find_last_not_of(ws): 0-based position or npos
find_last_not_of(s, ws) ==
    LET P == {i \in 1..Len(s) : s[i] \notin ws}
    IN IF P = {} THEN npos ELSE (CHOOSE i \in P : \A j \in P : j <= i) - 1

\* s.find_first_not_of(ws): 0-based position or npos
find_first_not_of(s, ws) ==
    LET P == {i \in 1..Len(s) : s[i] \notin ws}
    IN IF P = {} THEN npos ELSE (CHOOSE i \in P : \A j \in P : j >= i) - 1

\* s.erase(pos, n): removes min(n, size - pos) characters from position pos
\* (0-based); n = npos removes up to the end.
erase(s, pos, n) ==
    LET cnt == IF n = npos \/ n > Len(s) - pos THEN Len(s) - pos ELSE n
    IN SubSeq(s, 1, pos) \o SubSeq(s, pos + cnt + 1, Len(s))

\* Trim without its second erase: leading whitespace is kept
Trim_TrailingOnly(s) == erase(s, find_last_not_of(s, whitespace) + 1, npos)

\* Model::Trim and View::Trim (the two are the same code)
Trim(s) ==
    LET s1 == erase(s, find_last_not_of(s, whitespace) + 1, npos)
    IN erase(s1, 0, find_first_not_of(s1, whitespace))

(***************************************************************************)
(* Files.  A file either does not exist or holds a sequence of characters. *)
(***************************************************************************)
NoFile == [exists |-> FALSE, data |-> <<>>]
File(d) == [exists |-> TRUE, data |-> d]

\* position (1-based) of the first '\n' of d, 0 when there is none
FirstNL(d) ==
    LET P == {i \in 1..Len(d) : d[i] = "\n"}
    IN IF P = {} THEN 0 ELSE CHOOSE i \in P : \A j \in P : j >= i

\* the lines successive std::getline calls deliver until the stream fails
RECURSIVE GetLines(_)
GetLines(d) ==
    IF d = <<>> THEN <<>>
    ELSE LET k == FirstNL(d)
         IN IF k = 0 THEN <<d>>
            ELSE <<SubSeq(d, 1, k - 1)>> \o GetLines(SubSeq(d, k + 1, Len(d)))

\* the loop body of LoadData: Trim(line); if (!line.empty()) push_back(line)
RECURSIVE LoadLines(_)
LoadLines(ls) ==
    IF ls = <<>> THEN <<>>
    ELSE LET line == Trim(Head(ls))
         IN (IF line # <<>> THEN <<line>> ELSE <<>>) \o LoadLines(Tail(ls))

\* one half of Model::LoadData: a file that cannot be opened gives no entries
LoadFile(f) == IF f.exists THEN LoadLines(GetLines(f.data)) ELSE <<>>

\* for (const auto& c : list) fout << c << '\n';
RECURSIVE WriteLines(_)
WriteLines(list) ==
    IF list = <<>> THEN <<>>
    ELSE Head(list) \o <<"\n">> \o WriteLines(Tail(list))

\* one half of Model::SaveData: std::ofstream(path, std::ios::trunc) and the
\* writes.  ok = FALSE is the stream failing to open: every << is then a
\* no-op and the file is left as it was.  The result is not inspected.
SaveFile(f, list, ok) == IF ok THEN File(WriteLines(list)) ELSE f

(***************************************************************************)
(* Model                                                                   *)
(***************************************************************************)
\* Exists with the search stopping one element early
Exists_SkipsLast(vec, val) == \E i \in 1..(Len(vec) - 1) : vec[i] = val

\* Model::Exists: std::find(vec.begin(), vec.end(), val) != vec.end()
Exists(vec, val) == \E i \in 1..Len(vec) : vec[i] = val

\* insertion at the front instead of the back
push_front(vec, val) == <<val>> \o vec

\* vec.push_back(val)
push_back(vec, val) == Append(vec, val)

GetClasses == classes
GetStudents == students

\* the contents of the backing files the program may be started on
InitFiles ==
    { NoFile,
      File(<<>>),
      File(<<"a", "\n">>),
      File(<<"b", "\n", "a", "\n">>),
      File(<<" ", "a", " ", "b", " ", "\n", "\n", "\t", "\n", "b">>),
      File(<<"\t", "\n", "a", " ", "b", "\r">>),
      File(<<"a", "\r", "\n", " ", "a", "\n">>) }

\* the lines an operator may type at a prompt (std::getline results)
RawLines ==
    { <<"a">>, <<" ", "b", "\t">>, <<>>, <<" ", "\t">> }

\* what is waiting on std::cin when a prompt starts
StdinScripts ==
    UNION { [1..n -> RawLines] : n \in 1..MaxPromptLines }

\* View::PromptNonEmptyString: do { getline; Trim } while (input.empty())
RECURSIVE PromptNonEmptyString(_)
PromptNonEmptyString(stdin) ==
    LET input == Trim(Head(stdin))
    IN IF input = <<>> THEN PromptNonEmptyString(Tail(stdin)) ELSE input

\* the prompt returns only when some typed line is not blank
Answers(stdin) == \E i \in 1..Len(stdin) : Trim(stdin[i]) # <<>>

\* every value a prompt can return
PromptResults ==
    { PromptNonEmptyString(stdin) : stdin \in {s \in StdinScripts : Answers(s)} }

\* Model::Model() -> LoadData(): the state after construction
Init ==
    /\ fileClasses \in InitFiles
    /\ fileStudents \in InitFiles
    /\ classes = LoadFile(fileClasses)
    /\ students = LoadFile(fileStudents)
    /\ loaded = [classes |-> classes, students |-> students]
    /\ log = <<>>
    /\ cards = <<>>
    /\ shown = FALSE
    /\ out = <<>>
    /\ thrown = FALSE

\* Model::SaveData as AddClass / AddStudent call it, on the lists after the
\* push_back; okC, okS: whether each std::ofstream opens
SaveData(okC, okS) ==
    /\ fileClasses' = SaveFile(fileClasses, classes', okC)
    /\ fileStudents' = SaveFile(fileStudents, students', okS)

\* the record of one call: its argument, its return value, the target list
\* before it, and whether a write of SaveData failed during it
Call(op, arg, ret, pre, failedC, failedS) ==
    [op |-> op, arg |-> arg, ret |-> ret, pre |-> pre,
     failedC |-> failedC, failedS |-> failedS]

\* AddClass with SaveData called on the rejecting path too
AddClass_SavesOnReject(className, okC, okS) ==
    IF ~Exists(classes, className)
    THEN /\ classes' = push_back(classes, className)
         /\ students' = students
         /\ SaveData(okC, okS)
         /\ log' = Append(log, Call("AddClass", className, TRUE, classes,
                                    ~okC, ~okS))
    ELSE /\ UNCHANGED <<classes, students>>
         /\ SaveData(okC, okS)
         /\ log' = Append(log, Call("AddClass", className, FALSE, classes,
                                    FALSE, FALSE))

\* Model::AddClass
AddClass(className, okC, okS) ==
    IF ~Exists(classes, className)
    THEN /\ classes' = push_back(classes, className)
         /\ students' = students
         /\ SaveData(okC, okS)
         /\ log' = Append(log, Call("AddClass", className, TRUE, classes,
                                    ~okC, ~okS))
    ELSE /\ UNCHANGED <<classes, students, fileClasses, fileStudents>>
         /\ log' = Append(log, Call("AddClass", className, FALSE, classes,
                                    FALSE, FALSE))

\* Model::AddStudent
AddStudent(studentName, okC, okS) ==
    IF ~Exists(students, studentName)
    THEN /\ students' = push_back(students, studentName)
         /\ classes' = classes
         /\ SaveData(okC, okS)
         /\ log' = Append(log, Call("AddStudent", studentName, TRUE, students,
                                    ~okC, ~okS))
    ELSE /\ UNCHANGED <<classes, students, fileClasses, fileStudents>>
         /\ log' = Append(log, Call("AddStudent", studentName, FALSE, students,
                                    FALSE, FALSE))

\* Controller::AddClassFlow
AddClassFlow ==
    /\ Len(log) < MaxCalls
    /\ \E name \in PromptResults, okC \in BOOLEAN, okS \in BOOLEAN :
          AddClass(name, okC, okS)
    /\ UNCHANGED <<loaded, cards, shown, out, thrown>>

\* Controller::AddStudentFlow
AddStudentFlow ==
    /\ Len(log) < MaxCalls
    /\ \E name \in PromptResults, okC \in BOOLEAN, okS \in BOOLEAN :
          AddStudent(name, okC, okS)
    /\ UNCHANGED <<loaded, cards, shown, out, thrown>>

Next == AddClassFlow \/ AddStudentFlow

Spec == Init /\ [][Next]_vars

(***************************************************************************)
(* Properties of the roster                                                *)
(***************************************************************************)
Last(s) == s[Len(s)]
Count(vec, val) == Cardinality({i \in 1..Len(vec) : vec[i] = val})
NoDuplicates(vec) == \A i, j \in 1..Len(vec) : i # j => vec[i] # vec[j]
IsPrefix(a, b) == Len(a) <= Len(b) /\ SubSeq(b, 1, Len(a)) = a
TargetList(op) == IF op = "AddClass" THEN classes ELSE students

\* the last two calls were the same operation on the same Name
SameCallTwice ==
    /\ Len(log) >= 2
    /\ log[Len(log) - 1].op = Last(log).op
    /\ log[Len(log) - 1].arg = Last(log).arg

\* the outcome C1 describes for two calls in succession
TrueThenFalseOnce ==
    /\ log[Len(log) - 1].ret = TRUE
    /\ Last(log).ret = FALSE
    /\ Count(TargetList(Last(log).op), Last(log).arg) = 1

\* C1, as stated: for any Name n, two calls AddClass(n) in succession return
\* true and then false, and the classes list then holds n exactly once
\* (the same for AddStudent and the students list).
C1_TwiceTrueThenFalse == SameCallTwice => TrueThenFalseOnce

\* C1, amended: for any Name n that is not in the target list before the
\* first call, two calls AddClass(n) in succession return true and then
\* false, and the list then holds n exactly once (the same for AddStudent).
C1_FreshTwiceTrueThenFalse ==
    (SameCallTwice /\ Count(log[Len(log) - 1].pre, Last(log).arg) = 0)
        => TrueThenFalseOnce

\* a Name absent from a list that was loaded non-empty has been added twice
C1_Witness ==
    /\ SameCallTwice
    /\ Count(log[Len(log) - 1].pre, Last(log).arg) = 0
    /\ log[Len(log) - 1].pre # <<>>

\* C2: after Load over any contents of the two files and any sequence of
\* AddClass / AddStudent calls, neither list holds the same Name twice.
C2_NoDuplicates == NoDuplicates(classes) /\ NoDuplicates(students)

\* the Names AddClass (AddStudent) accepted, in the order of the calls
RECURSIVE Added(_, _)
Added(l, op) ==
    IF l = <<>> THEN <<>>
    ELSE (IF Head(l).op = op /\ Head(l).ret THEN <<Head(l).arg>> ELSE <<>>)
         \o Added(Tail(l), op)

\* C3: the lists are append-only and order-preserving: every step leaves
\* each list a prefix of its new value, and GetClasses returns the loaded
\* Names followed by the Names added through AddClass, which are distinct,
\* in exactly the order they were added.
C3_AppendOnlyInOrder ==
    /\ [][IsPrefix(classes, classes') /\ IsPrefix(students, students')]_vars
    /\ [](/\ GetClasses = loaded.classes \o Added(log, "AddClass")
          /\ NoDuplicates(Added(log, "AddClass")))

\* two Names have been added through AddClass to a list loaded non-empty
C3_Witness ==
    /\ Len(Added(log, "AddClass")) >= 2
    /\ loaded.classes # <<>>

\* C4: after a call that returned true both files have been rewritten in
\* full, and a fresh Load from them yields the in-memory lists.
C4_RoundTrip ==
    (log # <<>> /\ Last(log).ret)
        => /\ fileClasses = File(WriteLines(classes))
           /\ fileStudents = File(WriteLines(students))
           /\ LoadFile(fileClasses) = classes
           /\ LoadFile(fileStudents) = students

\* C5: a rejected add changes nothing: a call whose Name is already in the
\* target list returns false and leaves both lists and both files as they
\* were; AddClass never changes the students list and AddStudent never
\* changes the classes list; and a Name absent from the target list is
\* accepted whether or not the other list holds it.
C5_RejectedAddChangesNothing ==
    [][log' # log =>
        LET e == Last(log')
            target == IF e.op = "AddClass" THEN classes ELSE students
        IN /\ Count(target, e.arg) > 0 =>
                /\ e.ret = FALSE
                /\ UNCHANGED <<classes, students, fileClasses, fileStudents>>
           /\ Count(target, e.arg) = 0 => e.ret = TRUE
           /\ e.op = "AddClass" => students' = students
           /\ e.op = "AddStudent" => classes' = classes]_vars

\* the last call was rejected, and before it AddClass accepted a Name that
\* the students list held from the start
C5_Witness ==
    /\ log # <<>>
    /\ Last(log).ret = FALSE
    /\ \E i \in 1..Len(log) :
          /\ log[i].op = "AddClass"
          /\ log[i].ret
          /\ Count(loaded.students, log[i].arg) > 0

\* C6: when a write of a backing file fails during AddClass or AddStudent,
\* the call does not report plain success, and the target list still holds
\* every Name it held before, in order.
C6_WriteFailureReported ==
    \A i \in 1..Len(log) :
        (log[i].failedC \/ log[i].failedS)
            => /\ log[i].ret # TRUE
               /\ IsPrefix(log[i].pre, TargetList(log[i].op))

IsWhitespace(ch) == ch \in {" ", "\t", "\n", "\r", "\f", "\\v"}
IsName(s) == s # <<>> /\ ~IsWhitespace(s[1]) /\ ~IsWhitespace(s[Len(s)])

\* C10: every Name in either list is non-empty and has no leading or
\* trailing whitespace, and before any call a missing file has given an
\* empty list.
C10_NamesTrimmed ==
    /\ \A i \in 1..Len(classes) : IsName(classes[i])
    /\ \A i \in 1..Len(students) : IsName(students[i])
    /\ (log = <<>> /\ ~fileClasses.exists) => classes = <<>>
    /\ (log = <<>> /\ ~fileStudents.exists) => students = <<>>

\* the classes file held padded and blank lines, the students file was
\* missing, and a Name typed at a prompt has been added to each list
C10_Witness ==
    /\ loaded.classes = << <<"a", " ", "b">>, <<"b">> >>
    /\ loaded.students = <<>>
    /\ Len(Added(log, "AddClass")) >= 1
    /\ Len(Added(log, "AddStudent")) >= 1

(***************************************************************************)
(* View: the card grid                                                     *)
(***************************************************************************)
\* the ANSI sequences; each is one element of a line and takes no column
COLOR_RESET == "ESC[0m"
COLOR_GRAY == "ESC[38;2;107;114;128m"
COLOR_BOLD == "ESC[1m"
Markers == {COLOR_RESET, COLOR_GRAY, COLOR_BOLD}

\* the box-drawing glyphs; each takes one column
TopLeft == "BOX-TL"
TopRight == "BOX-TR"
BottomLeft == "BOX-BL"
BottomRight == "BOX-BR"
Bar == "BOX-V"

cardsPerRow == 2
cardWidth == 50
contentLines == 3

\* content.substr(pos, n)
substr(s, pos, n) ==
    SubSeq(s, pos + 1, IF pos + n > Len(s) THEN Len(s) ELSE pos + n)

\* int titlePadLeft = (cardWidth - 2 - card.first.size()) / 2;
\* The operands are converted to size_t.  For a title longer than
\* cardWidth - 2 the difference x < 0 wraps to 2^64 + x, halves to
\* 2^63 + floor(x / 2), and the conversion to int keeps the low 32 bits:
\* floor(x / 2), which is what \div gives for either sign.
titlePadLeft(title) == (cardWidth - 2 - Len(title)) \div 2

\* int titlePadRight = cardWidth - 2 - card.first.size() - titlePadLeft;
titlePadRight(title) == cardWidth - 2 - Len(title) - titlePadLeft(title)

\* lines[0] and lines[6]
TopBorder == <<TopLeft>> \o Rep(cardWidth - 2, "_") \o <<TopRight>>
BottomBorder == <<BottomLeft>> \o Rep(cardWidth - 2, "_") \o <<BottomRight>>

\* "│" + std::string(cardWidth - 2, ' ') + "│"
BlankRow == <<Bar>> \o Rep(cardWidth - 2, " ") \o <<Bar>>

\* lines[1]: the title line
TitleLine(title) ==
    <<Bar>> \o Rep(titlePadLeft(title), " ") \o <<COLOR_BOLD>> \o title
            \o <<COLOR_RESET>> \o Rep(titlePadRight(title), " ") \o <<Bar>>

\* the truncation test with >= in place of >
Truncate_AtBoundary(content) ==
    IF Len(content) >= cardWidth - 3
    THEN substr(content, 0, cardWidth - 6) \o <<".", ".", ".">>
    ELSE content

\* the content after the truncation test
Truncate(content) ==
    IF Len(content) > cardWidth - 3
    THEN substr(content, 0, cardWidth - 6) \o <<".", ".", ".">>
    ELSE content

\* lines[3 + ln], ln = 0 .. contentLines - 1
ContentLine(card, ln) ==
    IF ln < Len(card.second)
    THEN LET content == Truncate(card.second[ln + 1])
             padRight == cardWidth - 3 - Len(content)
         IN <<Bar, " ">> \o content \o Rep(padRight, " ") \o <<Bar>>
    ELSE BlankRow

\* whether composing the card's lines ends in std::length_error
CardThrows(card) ==
    \/ Throws(titlePadLeft(card.first))
    \/ Throws(titlePadRight(card.first))
    \/ \E ln \in 0..(contentLines - 1) :
          /\ ln < Len(card.second)
          /\ Throws(cardWidth - 3 - Len(Truncate(card.second[ln + 1])))

\* the 7 lines composed for one card
CardLines(card) ==
    <<TopBorder, TitleLine(card.first), BlankRow>>
        \o [ln \in 1..contentLines |-> ContentLine(card, ln - 1)]
        \o <<BottomBorder>>

\* one printed line of a group: the cards' lines side by side
RECURSIVE PrintLine(_)
PrintLine(cells) ==
    IF cells = <<>> THEN <<>>
    ELSE <<COLOR_GRAY>> \o Head(cells) \o <<COLOR_RESET>>
         \o (IF Len(cells) # 1 THEN Rep(4, " ") ELSE <<>>)
         \o PrintLine(Tail(cells))

\* the cards of the group that starts at index i (0-based)
GroupOf(cs, i) ==
    SubSeq(cs, i + 1, IF i + cardsPerRow > Len(cs) THEN Len(cs) ELSE i + cardsPerRow)

\* what one iteration of the outer loop prints: 7 lines and an empty line
PrintGroup(group) ==
    [lineNum \in 1..7 |->
        PrintLine([c \in 1..Len(group) |-> CardLines(group[c])[lineNum]])]
    \o << <<>> >>

\* View::DisplayCardsGrid from index i on: the lines printed and whether an
\* exception ended the call
RECURSIVE GridFrom(_, _)
GridFrom(cs, i) ==
    IF i >= Len(cs) THEN [out |-> <<>>, thrown |-> FALSE]
    ELSE LET group == GroupOf(cs, i)
         IN IF \E c \in 1..Len(group) : CardThrows(group[c])
            THEN [out |-> <<>>, thrown |-> TRUE]
            ELSE LET rest == GridFrom(cs, i + cardsPerRow)
                 IN [out |-> PrintGroup(group) \o rest.out,
                     thrown |-> rest.thrown]

DisplayCardsGrid(cs) == GridFrom(cs, 0)

\* text of n characters whose i-th character shows i
Digits == <<"1", "2", "3", "4", "5", "6", "7", "8", "9", "0">>
Text(n) == [i \in 1..n |-> Digits[((i - 1) % 10) + 1]]

\* the cards the renderer is applied to
CardSet ==
    { [first |-> <<"M", "a", "t", "h">>, second |-> <<Text(39)>>],
      [first |-> Text(5), second |-> <<>>],
      [first |-> Text(cardWidth - 2),
       second |-> <<Text(cardWidth - 3), Text(cardWidth - 2), <<>> >>],
      [first |-> Text(cardWidth - 3),
       second |-> <<Text(3), Text(60), Text(cardWidth - 4), Text(cardWidth + 5)>>],
      [first |-> Text(cardWidth - 1), second |-> <<Text(35)>>],
      [first |-> Text(cardWidth + 3), second |-> <<Text(cardWidth)>>] }

CardLists == UNION { [1..n -> CardSet] : n \in 1..MaxCards }

InitGrid ==
    /\ fileClasses = NoFile
    /\ fileStudents = NoFile
    /\ classes = LoadFile(fileClasses)
    /\ students = LoadFile(fileStudents)
    /\ loaded = [classes |-> classes, students |-> students]
    /\ log = <<>>
    /\ cards \in CardLists
    /\ shown = FALSE
    /\ out = <<>>
    /\ thrown = FALSE

\* a call view.DisplayCardsGrid(cards)
ShowCards ==
    /\ ~shown
    /\ shown' = TRUE
    /\ out' = DisplayCardsGrid(cards).out
    /\ thrown' = DisplayCardsGrid(cards).thrown
    /\ UNCHANGED <<classes, students, fileClasses, fileStudents, loaded, log,
                   cards>>

NextGrid == ShowCards

SpecGrid == InitGrid /\ [][NextGrid]_vars

(***************************************************************************)
(* Properties of the card grid                                             *)
(***************************************************************************)
\* a line without its ANSI sequences
Printable(line) == SelectSeq(line, LAMBDA t : t \notin Markers)

\* the positions of tok in line, ascending
RECURSIVE Ascending(_)
Ascending(S) ==
    IF S = {} THEN <<>>
    ELSE LET m == CHOOSE x \in S : \A y \in S : x <= y
         IN <<m>> \o Ascending(S \ {m})
PositionsOf(line, tok) == Ascending({i \in 1..Len(line) : line[i] = tok})

\* the cells of a printed line: a cell starts after a COLOR_GRAY and its
\* body ends before the last COLOR_RESET that precedes the next COLOR_GRAY;
\* what follows that COLOR_RESET is the gutter after the cell
Cells(line) ==
    LET g == PositionsOf(line, COLOR_GRAY)
    IN [c \in 1..Len(g) |->
          LET stop == IF c < Len(g) THEN g[c + 1] - 1 ELSE Len(line)
              seg == SubSeq(line, g[c] + 1, stop)
              r == PositionsOf(seg, COLOR_RESET)
              close == IF r = <<>> THEN Len(seg) + 1 ELSE r[Len(r)]
          IN [body |-> SubSeq(seg, 1, close - 1),
              after |-> SubSeq(seg, close + 1, Len(seg))]]

\* the emphasized text of a title row
TitleOf(body) ==
    LET b == PositionsOf(body, COLOR_BOLD)
        r == PositionsOf(body, COLOR_RESET)
    IN IF b = <<>> \/ r = <<>> THEN <<>> ELSE SubSeq(body, b[1] + 1, r[1] - 1)

NGroups == (Len(cards) + cardsPerRow - 1) \div cardsPerRow
GroupSize(g) ==
    IF g * cardsPerRow <= Len(cards) THEN cardsPerRow
    ELSE Len(cards) - (g - 1) * cardsPerRow

\* printed line r (1..8) of group g (1..NGroups)
GroupLine(g, r) == out[8 * (g - 1) + r]

\* row r (1..7) of card k (1..Len(cards)) as printed
CardRow(k, r) ==
    Cells(GroupLine(((k - 1) \div cardsPerRow) + 1, r))
        [((k - 1) % cardsPerRow) + 1].body

\* the number of cards whose group has been printed
PrintedCards ==
    IF cardsPerRow * (Len(out) \div 8) < Len(cards)
    THEN cardsPerRow * (Len(out) \div 8) ELSE Len(cards)

\* C7: for any title and any body, every rendered card occupies exactly 7
\* rows and each of them has printable width cardWidth, including when the
\* title is longer than cardWidth - 2.
C7_CardDimensions ==
    shown =>
        /\ ~thrown
        /\ Len(out) = 8 * NGroups
        /\ \A k \in 1..Len(cards) : \A r \in 1..7 :
              /\ Len(Cells(GroupLine(((k - 1) \div cardsPerRow) + 1, r)))
                    = GroupSize(((k - 1) \div cardsPerRow) + 1)
              /\ Len(Printable(CardRow(k, r))) = cardWidth
        /\ \A g \in 1..NGroups : GroupLine(g, 8) = <<>>

\* C8: n >= 1 cards are printed in input order in ceil(n / 2) groups, card k
\* (0-based) in group k div 2 at column k mod 2; a group is 7 lines in which
\* the cards' rows are joined by a gutter of 4 spaces; one blank line
\* follows a group; the last group of an odd n holds one card and no gutter.
C8_GridLayout ==
    shown =>
        /\ ~thrown
        /\ Len(out) = 8 * NGroups
        /\ \A g \in 1..NGroups :
              /\ GroupLine(g, 8) = <<>>
              /\ \A r \in 1..7 :
                    LET cells == Cells(GroupLine(g, r))
                    IN /\ Len(cells) = GroupSize(g)
                       /\ \A c \in 1..Len(cells) :
                             cells[c].after =
                                IF c < Len(cells) THEN Rep(4, " ") ELSE <<>>
              /\ \A c \in 1..GroupSize(g) :
                    TitleOf(Cells(GroupLine(g, 2))[c].body)
                        = cards[cardsPerRow * (g - 1) + c].first

\* how C9 says a body line is rendered after the leading space
Rendered(b) ==
    IF Len(b) > cardWidth - 3
    THEN SubSeq(b, 1, cardWidth - 6) \o <<".", ".", ".">>
    ELSE b \o Rep(cardWidth - 3 - Len(b), " ")

\* C9: in every printed card, a body line longer than cardWidth - 3 is its
\* first cardWidth - 6 characters followed by "..." with no padding, and a
\* body line of at most cardWidth - 3 characters is unmodified and padded
\* with spaces to cardWidth - 3 characters; both fill cardWidth - 3 columns
\* after the leading space.
C9_Truncation ==
    shown =>
        \A k \in 1..PrintedCards : \A ln \in 0..(contentLines - 1) :
            ln < Len(cards[k].second) =>
                /\ CardRow(k, 4 + ln)
                      = <<Bar, " ">> \o Rendered(cards[k].second[ln + 1]) \o <<Bar>>
                /\ Len(Rendered(cards[k].second[ln + 1])) = cardWidth - 3

\* a printed card has a body line of exactly cardWidth - 3 characters, a
\* longer one and a shorter one
C9_Witness ==
    /\ shown
    /\ \E k \in 1..PrintedCards :
          /\ \E ln \in 1..contentLines : ln <= Len(cards[k].second)
                /\ Len(cards[k].second[ln]) = cardWidth - 3
          /\ \E ln \in 1..contentLines : ln <= Len(cards[k].second)
                /\ Len(cards[k].second[ln]) > cardWidth - 3
          /\ \E ln \in 1..contentLines : ln <= Len(cards[k].second)
                /\ Len(cards[k].second[ln]) < cardWidth - 3

====
